---- MODULE Spec2Model ----
(***************************************************************************)
(* A model of the book catalog of src/library.py: the class Book, the      *)
(* class Library (load_books, save_books, add_book, remove_book,           *)
(* search_books, display_books, change_status, find_book_by_id) and the    *)
(* JSON backing file they read and write.                                  *)
(*                                                                         *)
(* Text is a sequence of one-character strings, so that lower() and the    *)
(* substring test of search_books are computed and not assumed.  A JSON    *)
(* document is an array of objects whose values carry their JSON type      *)
(* (number or string); the backing file is missing, unparseable, or holds  *)
(* such a document.                                                        *)
(***************************************************************************)
EXTENDS Integers, Sequences, FiniteSets, TLC

VARIABLES
    books,   \* Library.books: the in-memory list of Book objects
    file,    \* the content of Library.data_file on disk
    op,      \* the method of Library that ran last
    result,  \* what that call reported: its message, or the exception it raised
    wrote,   \* what that call did to the file: "none", "ok" or "failed"
    shown    \* the books that call printed through display_books

vars == <<books, file, op, result, wrote, shown>>

----------------------------------------------------------------------------
(* Bounds of the model *)

MaxBooks == 3      \* add_book is not taken on a list of this length
MaxId == 3         \* add_book is not taken when the new id would exceed this

MaxFileLen == MaxBooks - 1   \* records in the backing file at construction
MaxFileId == MaxId - 1       \* ids in the backing file at construction

----------------------------------------------------------------------------
(* Values *)

AVAILABLE == "v nalichii"      \* the status literal for "in stock"
CHECKED_OUT == "vydana"        \* the status literal for "lent out"
INVALID == "invalid_status"    \* the status string of test_change_status_invalid

None == 0                      \* find_book_by_id's "no such book"

Keys == {"id", "title", "author", "year", "status"}

\* The (title, author, year) triples add_book is called with.  The second has
\* the empty author and the year 0 that main() passes for a non-numeric year.
AddInputs ==
    { [title |-> <<"P", "y">>, author |-> <<"A">>, year |-> 12],
      [title |-> <<"c", "p">>, author |-> <<>>, year |-> 0] }

BookIds == 1..(MaxId + 1)
StatusInputs == {AVAILABLE, CHECKED_OUT, INVALID}
Keywords == {<<>>, <<"p">>, <<"P", "Y">>, <<"a">>, <<"2">>, <<"1", "2">>, <<"0">>}
SearchFields == {"title", "author", "year"}

\* What the operating system does with one open-for-writing and dump:
\* it succeeds, open() fails and the file stays, or the dump stops part-way.
WriteOutcomes == {"ok", "open_failed", "write_failed"}

----------------------------------------------------------------------------
(* Text: str(), str.lower() and the substring test "a in b" *)

Digits == <<"0", "1", "2", "3", "4", "5", "6", "7", "8", "9">>

\* str(n) of a non-negative int: its decimal digits
RECURSIVE Str(_)
Str(n) == IF n < 10 THEN <<Digits[n + 1]>>
          ELSE Str(n \div 10) \o <<Digits[(n % 10) + 1]>>

lower_char(c) ==
    CASE c = "A" -> "a"
      [] c = "C" -> "c"
      [] c = "P" -> "p"
      [] c = "Y" -> "y"
      [] OTHER -> c

\* text.lower()
lower(text) == [i \in 1..Len(text) |-> lower_char(text[i])]

\* a in b, for two str
In(a, b) ==
    \E start \in 0..(Len(b) - Len(a)) :
        SubSeq(b, start + 1, start + Len(a)) = a

----------------------------------------------------------------------------
(* class Book *)

Book(book_id, title, author, year, status) ==
    [id |-> book_id, title |-> title, author |-> author,
     year |-> year, status |-> status]

to_dict(self) ==
    [id |-> self.id, title |-> self.title, author |-> self.author,
     year |-> self.year, status |-> self.status]

\* data["k"] raises KeyError when the mapping has no key k
HasKeys(data) == Keys \subseteq DOMAIN data

\* from_dict that leaves the status to the default of Book.__init__
from_dict_default_status(data) ==
    Book(data.id, data.title, data.author, data.year, AVAILABLE)

from_dict(data) ==
    Book(data.id, data.title, data.author, data.year, data.status)

\* str(getattr(book, field))
str_getattr(book, field) ==
    IF field \in {"id", "year"} THEN Str(book[field]) ELSE book[field]

----------------------------------------------------------------------------
(* The json module on the values of this program: json.dump writes an int  *)
(* as a JSON number and a str as a JSON string; json.load reads them back. *)
(* The model knows a value's type from its key.                            *)

json_value(k, v) == IF k \in {"id", "year"} THEN <<"num", v>> ELSE <<"str", v>>

python_value(j) == j[2]

json_dump(dicts) ==
    [kind |-> "json",
     data |-> [i \in 1..Len(dicts) |->
                 [k \in DOMAIN dicts[i] |-> json_value(k, dicts[i][k])]]]

\* json.load on a file that parses
json_load(f) ==
    [i \in 1..Len(f.data) |->
        [k \in DOMAIN f.data[i] |-> python_value(f.data[i][k])]]

Missing == [kind |-> "missing", data |-> <<>>]         \* open() raises FileNotFoundError
Unparseable == [kind |-> "unparseable", data |-> <<>>] \* json.load raises JSONDecodeError

----------------------------------------------------------------------------
(* class Library: the pure parts *)

\* load_books: the new self.books and what the caller sees.  FileNotFoundError
\* and JSONDecodeError are caught; the KeyError of from_dict is not, and it
\* leaves self.books as it was.
load_books(f, self_books) ==
    IF f.kind \in {"missing", "unparseable"}
    THEN [books |-> <<>>, result |-> "ok"]
    ELSE LET data == json_load(f) IN
         IF \A i \in 1..Len(data) : HasKeys(data[i])
         THEN [books |-> [i \in 1..Len(data) |-> from_dict(data[i])],
               result |-> "ok"]
         ELSE [books |-> self_books, result |-> "KeyError"]

\* save_books: the file after open(..., "w") and json.dump with outcome w
save_books(bks, f, w) ==
    CASE w = "ok" -> json_dump([i \in 1..Len(bks) |-> to_dict(bks[i])])
      [] w = "open_failed" -> f
      [] w = "write_failed" -> Unparseable

\* save_books with its exception swallowed: the message is printed anyway
saved_then_print_swallowed(w, message) == message

\* self.save_books() followed by print(message): an exception of save_books
\* leaves the method before the print
saved_then_print(w, message) == IF w = "ok" THEN message ELSE "IOError"

write_result(w) == IF w = "ok" THEN "ok" ELSE "failed"

\* find_book_by_id: the position of the first book with that id, or None
find_book_by_id(bks, book_id) ==
    IF \E i \in 1..Len(bks) : bks[i].id = book_id
    THEN CHOOSE i \in 1..Len(bks) :
            /\ bks[i].id = book_id
            /\ \A j \in 1..(i - 1) : bks[j].id # book_id
    ELSE None

\* book_id taken from the length of the list
new_book_id_from_len(bks) == Len(bks) + 1

\* book_id of add_book
new_book_id(bks) == IF bks = <<>> THEN 1 ELSE bks[Len(bks)].id + 1

\* self.books.remove(book), book being the object at position i
list_remove(bks, i) ==
    [j \in 1..(Len(bks) - 1) |-> IF j < i THEN bks[j] ELSE bks[j + 1]]

\* change_status without the membership test
valid_status_any(new_status) == TRUE

valid_status(new_status) == new_status \in {AVAILABLE, CHECKED_OUT}

\* the condition without the two lower()
matches_case_sensitive(book, keyword, field) ==
    In(keyword, str_getattr(book, field))

\* the condition of the list comprehension of search_books
matches(book, keyword, field) ==
    In(lower(keyword), lower(str_getattr(book, field)))

\* the list comprehension of search_books
RECURSIVE search_results(_, _, _)
search_results(bks, keyword, field) ==
    IF bks = <<>> THEN <<>>
    ELSE (IF matches(Head(bks), keyword, field) THEN <<Head(bks)>> ELSE <<>>)
         \o search_results(Tail(bks), keyword, field)

----------------------------------------------------------------------------
(* The backing file when the Library is constructed *)

FileObject(id, in, status) ==
    [k \in Keys |-> json_value(k, Book(id, in.title, in.author, in.year, status)[k])]

Without(obj, k) == [j \in (DOMAIN obj) \ {k} |-> obj[j]]

FullObjects ==
    { FileObject(id, in, st) :
        id \in 1..MaxFileId, in \in AddInputs, st \in {AVAILABLE, CHECKED_OUT} }

\* one object for each required key it can lack
LackingObjects ==
    { Without(FileObject(1, CHOOSE in \in AddInputs : in.year = 12, AVAILABLE), k) :
        k \in Keys }

DistinctIds(data) ==
    \A i, j \in 1..Len(data) :
        (i < j /\ "id" \in DOMAIN data[i] /\ "id" \in DOMAIN data[j])
            => data[i].id # data[j].id

InitFiles ==
    {Missing, Unparseable} \cup
    { [kind |-> "json", data |-> d] :
        d \in { x \in UNION { [1..n -> FullObjects \cup LackingObjects] :
                                n \in 0..MaxFileLen } : DistinctIds(x) } }

----------------------------------------------------------------------------
(* class Library: construction and the methods *)

\* Library(data_file): self.books = [] and load_books()
Init ==
    \E f \in InitFiles :
        LET r == load_books(f, <<>>) IN
        /\ file = f
        /\ books = r.books
        /\ op = "__init__"
        /\ result = r.result
        /\ wrote = "none"
        /\ shown = <<>>

\* The process that holds the Library is running: no exception has left a
\* method.  main() catches none of them, so a KeyError of the constructor or
\* an IOError of save_books ends the run.
Alive == result \notin {"KeyError", "IOError"}

\* The program is started again on the same file, at any time: Library()
Library_init ==
    /\ LET r == load_books(file, <<>>) IN
       /\ books' = r.books
       /\ result' = r.result
    /\ op' = "__init__"
    /\ wrote' = "none"
    /\ shown' = <<>>
    /\ UNCHANGED file

do_save_books(w) ==
    /\ Alive
    /\ file' = save_books(books, file, w)
    /\ op' = "save_books"
    /\ result' = saved_then_print(w, "ok")
    /\ wrote' = write_result(w)
    /\ shown' = <<>>
    /\ UNCHANGED books

add_book(title, author, year, w) ==
    /\ Alive
    /\ Len(books) < MaxBooks
    /\ new_book_id(books) <= MaxId
    /\ LET book_id == new_book_id(books)
           new_book == Book(book_id, title, author, year, AVAILABLE)
       IN  /\ books' = Append(books, new_book)
           /\ file' = save_books(books', file, w)
    /\ op' = "add_book"
    /\ result' = saved_then_print(w, "ok")
    /\ wrote' = write_result(w)
    /\ shown' = <<>>

\* remove_book with save_books() after the if, on both branches
remove_book_saves_always(book_id, w) ==
    /\ Alive
    /\ LET book == find_book_by_id(books, book_id) IN
       /\ books' = IF book # None THEN list_remove(books, book) ELSE books
       /\ result' = IF book # None THEN saved_then_print(w, "ok") ELSE "not_found"
    /\ file' = save_books(books', file, w)
    /\ wrote' = write_result(w)
    /\ op' = "remove_book"
    /\ shown' = <<>>

remove_book(book_id, w) ==
    /\ Alive
    /\ LET book == find_book_by_id(books, book_id) IN
       IF book # None
       THEN /\ books' = list_remove(books, book)
            /\ file' = save_books(books', file, w)
            /\ result' = saved_then_print(w, "ok")
            /\ wrote' = write_result(w)
       ELSE /\ result' = "not_found"
            /\ wrote' = "none"
            /\ UNCHANGED <<books, file>>
    /\ op' = "remove_book"
    /\ shown' = <<>>

change_status(book_id, new_status, w) ==
    /\ Alive
    /\ LET book == find_book_by_id(books, book_id) IN
       IF book # None
       THEN IF valid_status(new_status)
            THEN /\ books' = [books EXCEPT ![book].status = new_status]
                 /\ file' = save_books(books', file, w)
                 /\ result' = saved_then_print(w, "ok")
                 /\ wrote' = write_result(w)
            ELSE /\ result' = "invalid_status"
                 /\ wrote' = "none"
                 /\ UNCHANGED <<books, file>>
       ELSE /\ result' = "not_found"
            /\ wrote' = "none"
            /\ UNCHANGED <<books, file>>
    /\ op' = "change_status"
    /\ shown' = <<>>

\* display_books(bks): "books = books or self.books", then the empty message
\* or one line for each book
display_books(bks) ==
    LET listed == IF bks # <<>> THEN bks ELSE books IN
    /\ shown' = listed
    /\ result' = IF listed = <<>> THEN "empty" ELSE "ok"

do_display_books ==
    /\ Alive
    /\ display_books(<<>>)
    /\ op' = "display_books"
    /\ wrote' = "none"
    /\ UNCHANGED <<books, file>>

search_books(keyword, field) ==
    /\ Alive
    /\ LET results == search_results(books, keyword, field) IN
       IF results # <<>>
       THEN display_books(results)
       ELSE /\ result' = "not_found"
            /\ shown' = <<>>
    /\ op' = "search_books"
    /\ wrote' = "none"
    /\ UNCHANGED <<books, file>>

Add == \E in \in AddInputs, w \in WriteOutcomes :
          add_book(in.title, in.author, in.year, w)
Remove == \E id \in BookIds, w \in WriteOutcomes : remove_book(id, w)
ChangeStatus == \E id \in BookIds, s \in StatusInputs, w \in WriteOutcomes :
                   change_status(id, s, w)
Search == \E kw \in Keywords, fld \in SearchFields : search_books(kw, fld)
Save == \E w \in WriteOutcomes : do_save_books(w)

\* The operations that change the catalog or the file, and the restart
Next ==
    \/ Library_init
    \/ Save
    \/ Add
    \/ Remove
    \/ ChangeStatus

Spec == Init /\ [][Next]_vars

\* The operations that only read the catalog, on every catalog a file can
\* hold: search_books and display_books change neither books nor file
NextSearch ==
    \/ Search
    \/ do_display_books

SpecSearch == Init /\ [][NextSearch]_vars

\* A catalog that starts on a missing file and is changed by add_book,
\* remove_book and change_status only
InitEmpty == Init /\ file = Missing

NextEmpty ==
    \/ Add
    \/ Remove
    \/ ChangeStatus

SpecEmpty == InitEmpty /\ [][NextEmpty]_vars

----------------------------------------------------------------------------
(* Vocabulary of the properties, stated without the operators above *)

Present(bks, id) == \E i \in 1..Len(bks) : bks[i].id = id

IdsOf(bks) == {bks[i].id : i \in 1..Len(bks)}

MaxOf(S) == CHOOSE m \in S : \A x \in S : x <= m

\* bks without its element at position i
Dropped(bks, i) == SubSeq(bks, 1, i - 1) \o SubSeq(bks, i + 1, Len(bks))

\* the file is a JSON array with one object for each book, in order, holding
\* the book's five fields
FileHolds(f, bks) ==
    /\ f.kind = "json"
    /\ Len(f.data) = Len(bks)
    /\ \A i \in 1..Len(bks) :
        /\ DOMAIN f.data[i] = Keys
        /\ f.data[i].id = <<"num", bks[i].id>>
        /\ f.data[i].title = <<"str", bks[i].title>>
        /\ f.data[i].author = <<"str", bks[i].author>>
        /\ f.data[i].year = <<"num", bks[i].year>>
        /\ f.data[i].status = <<"str", bks[i].status>>

\* missing, unparseable, or with an object that lacks a required key
Malformed(f) ==
    \/ f.kind \in {"missing", "unparseable"}
    \/ \E i \in 1..Len(f.data) : ~(Keys \subseteq DOMAIN f.data[i])

CasePairs == {{"A", "a"}, {"C", "c"}, {"P", "p"}, {"Y", "y"}}

SameLetter(c, d) == c = d \/ {c, d} \in CasePairs

\* keyword occurs in text as a substring, ignoring case
ContainsIgnoringCase(text, keyword) ==
    \E start \in 0..(Len(text) - Len(keyword)) :
        \A k \in 1..Len(keyword) : SameLetter(keyword[k], text[start + k])

\* the chosen field as text
Rendered(book, field) ==
    IF field = "year" THEN Str(book.year) ELSE book[field]

Selected(bks, keyword, field) ==
    SelectSeq(bks, LAMBDA b : ContainsIgnoringCase(Rendered(b, field), keyword))

Mutators == {"add_book", "remove_book", "change_status"}

----------------------------------------------------------------------------
(* The claims *)

\* C1: no two records of the in-memory sequence have the same id, in every
\* state reached from a missing file or a file of pairwise distinct ids.
C1_IdsUnique ==
    \A i, j \in 1..Len(books) : i # j => books[i].id # books[j].id

\* C2: add_book appends one record, with status AVAILABLE, whose id is 1 on an
\* empty catalog and otherwise 1 + the maximum id present before the call.
C2_AddAssignsMaxPlusOne ==
    [][op' = "add_book" =>
        /\ Len(books') = Len(books) + 1
        /\ SubSeq(books', 1, Len(books)) = books
        /\ books'[Len(books')].status = AVAILABLE
        /\ books'[Len(books')].id =
              IF books = <<>> THEN 1 ELSE 1 + MaxOf(IdsOf(books))]_vars

\* C3: when add_book, remove_book or change_status reports success, the file
\* was rewritten and holds exactly the in-memory sequence; when the write
\* failed, the caller gets the IOError and no success is reported.
C3_SuccessMeansPersisted ==
    op \in Mutators =>
        /\ result = "ok" => (wrote = "ok" /\ FileHolds(file, books))
        /\ wrote = "failed" => result = "IOError"

C3_Witness ==
    /\ op \in Mutators
    /\ result = "ok"
    /\ Len(books) >= 2

\* C4: constructing the Library never raises, and gives the empty catalog when
\* the file is missing, unparseable or has a record that lacks a required key.
C4_LoadNeverRaises ==
    op = "__init__" =>
        /\ result = "ok"
        /\ Malformed(file) => books = <<>>

\* C5: change_status on an existing id with an invalid status reports
\* invalid-input and changes neither the records nor the file; with a valid
\* status it sets the status of the record with that id, and nothing else.
C5_ChangeStatusValidates ==
    [][op' = "change_status" =>
       \A id \in BookIds, s \in StatusInputs, w \in WriteOutcomes :
         (Present(books, id) /\ change_status(id, s, w)) =>
            IF s \notin {AVAILABLE, CHECKED_OUT}
            THEN /\ result' = "invalid_status"
                 /\ books' = books
                 /\ file' = file
                 /\ wrote' = "none"
            ELSE \E i \in 1..Len(books) :
                    /\ books[i].id = id
                    /\ books' = [books EXCEPT ![i].status = s]]_vars

C5_Witness ==
    /\ op = "change_status"
    /\ result = "invalid_status"
    /\ \E i \in 1..Len(books) : books[i].status = CHECKED_OUT

\* C6: remove_book and change_status on an id that no record has report
\* not-found, leave the in-memory sequence as it was and do not write the file.
C6_AbsentIdChangesNothing ==
    [][op' \in {"remove_book", "change_status"} =>
       \A id \in BookIds, s \in StatusInputs, w \in WriteOutcomes :
         (~Present(books, id) /\ (remove_book(id, w) \/ change_status(id, s, w))) =>
            /\ result' = "not_found"
            /\ books' = books
            /\ file' = file
            /\ wrote' = "none"]_vars

C6_Witness ==
    /\ op \in {"remove_book", "change_status"}
    /\ result = "not_found"
    /\ books # <<>>

\* C7: after remove_book on an id that some record has, no record has that
\* id; exactly one record is gone and the others keep their order.
C7_RemovedIdIsAbsent ==
    [][op' = "remove_book" =>
       \A id \in BookIds, w \in WriteOutcomes :
         (Present(books, id) /\ remove_book(id, w)) =>
            /\ ~Present(books', id)
            /\ \E i \in 1..Len(books) : books' = Dropped(books, i)]_vars

\* C8: a load of the file that save_books has just written gives the saved
\* sequence: the same length and, at each position, the same five fields.
C8_SaveLoadRoundTrip ==
    wrote = "ok" =>
        LET r == load_books(file, <<>>) IN
        /\ r.result = "ok"
        /\ Len(r.books) = Len(books)
        /\ \A i \in 1..Len(books) :
              \A k \in Keys : r.books[i][k] = books[i][k]

C8_Witness ==
    /\ wrote = "ok"
    /\ Len(books) >= 2
    /\ \E i \in 1..Len(books) : books[i].status = CHECKED_OUT
    /\ \E i \in 1..Len(books) : books[i].author = <<>>

\* C9: search_books shows exactly the records whose chosen field, as text,
\* contains the keyword ignoring case, in catalog order, and changes neither
\* the records nor the file; the empty keyword selects every record.
C9_SearchSelects ==
    [][op' = "search_books" =>
       \A kw \in Keywords, fld \in SearchFields :
         search_books(kw, fld) =>
            /\ shown' = Selected(books, kw, fld)
            /\ kw = <<>> => shown' = books
            /\ books' = books
            /\ file' = file]_vars

C9_Witness ==
    /\ op = "search_books"
    /\ shown # <<>>
    /\ Len(shown) < Len(books)
    /\ shown # SubSeq(books, 1, Len(shown))

\* C10: in a catalog that starts empty and is changed by add_book, remove_book
\* and change_status only, the ids increase strictly with the position and
\* are at least 1.
C10_IdsIncreasing ==
    /\ \A i \in 1..Len(books) : books[i].id >= 1
    /\ \A i, j \in 1..Len(books) : i < j => books[i].id < books[j].id

C10_Witness ==
    /\ op = "add_book"
    /\ Len(books) >= 2
    /\ books[1].id > 1

====
